---- MODULE Spec2Model ----
(***************************************************************************)
(* Heads-up No-Limit Hold'em simulation core: FastState, FastPokerEngine   *)
(* (src/src/match_engine.py) and evaluate_hand (src/src/fast_evaluator.py).*)
(*                                                                         *)
(* Chip amounts are floats in the source.  Every amount the engine ever    *)
(* computes is a sum, difference or minimum of multiples of half a chip,   *)
(* and the only division is pot / 2.0, so every value is a multiple of a   *)
(* quarter chip and is represented exactly by a float.  The model counts   *)
(* chips in quarter-chip units: 1 chip = 4 units.                          *)
(***************************************************************************)
EXTENDS Integers, Sequences, FiniteSets, TLC

\* ---------------------------------------------------------------------
\* Bounds of the exploration
\* ---------------------------------------------------------------------
\* number of hands played on one engine
MaxHands == 2
\* resolution of the modelled weights and of the uniform draw r:
\* weights are k / ProbDen for k in 0..ProbDen, r is k / ProbDen for k in 0..ProbDen-1
ProbDen == 2

\* ---------------------------------------------------------------------
\* Program constants (chip amounts in quarter-chip units)
\* ---------------------------------------------------------------------
\* GameConfig.small_blind = 0.5
small_blind == 2
\* GameConfig.big_blind = 1.0
big_blind == 4
\* GameConfig.starting_stack = 200.0
starting_stack == 800
\* the literal 400 of the safeguard `if state.pot > 400`
POT_LIMIT == 1600
\* FastPokerEngine.base_seed
base_seed == 42

\* GameConfig values the engine is constructed with: the default, a deep
\* stack of 300 chips and a short stack of half a chip.
Configs ==
    { [sb |-> small_blind, bb |-> big_blind, stack |-> s] : s \in {starting_stack, 1200, 2} }

\* hand_id arguments of play_hand
HandIds == {0, 4}

Players == {0, 1}

\* ---------------------------------------------------------------------
\* fast_evaluator.evaluate_hand
\* ---------------------------------------------------------------------
Pow2(n) == 2 ^ n

\* an ascending sort in place of list.sort(reverse=True)
RECURSIVE InsertDesc_Asc(_, _)
InsertDesc_Asc(sorted, x) ==
    IF sorted = << >> THEN << x >>
    ELSE IF x <= Head(sorted) THEN << x >> \o sorted
    ELSE << Head(sorted) >> \o InsertDesc_Asc(Tail(sorted), x)

\* list.sort(reverse=True) by insertion
RECURSIVE InsertDesc(_, _)
InsertDesc(sorted, x) ==
    IF sorted = << >> THEN << x >>
    ELSE IF x >= Head(sorted) THEN << x >> \o sorted
    ELSE << Head(sorted) >> \o InsertDesc(Tail(sorted), x)

RECURSIVE SortDesc(_)
SortDesc(seq) ==
    IF seq = << >> THEN << >> ELSE InsertDesc(SortDesc(Tail(seq)), Head(seq))

\* the ranks r of `for r in range(12, -1, -1)` that satisfy membership in S, high to low
RECURSIVE DescSeq(_)
DescSeq(S) ==
    IF S = {} THEN << >>
    ELSE LET m == CHOOSE x \in S : \A y \in S : y <= x
         IN << m >> \o DescSeq(S \ {m})

\* the loop `for s in suits: suit_counts[s] += 1; if suit_counts[s] >= 5: flush_suit = s; break`
RECURSIVE FlushScan(_, _, _)
FlushScan(suits, i, suit_counts) ==
    IF i > Len(suits) THEN -1
    ELSE LET s == suits[i]
             c == [suit_counts EXCEPT ![s] = @ + 1]
         IN IF c[s] >= 5 THEN s ELSE FlushScan(suits, i + 1, c)

\* a rank bitmask is modelled as the set of its set bits
WHEEL_MASK == {12, 0, 1, 2, 3}

StraightMask(i) == (i - 4)..i

\* a wheel reported as an ace-high straight
StraightHigh_WheelAce(mask) ==
    LET hits == {i \in 4..12 : StraightMask(i) \subseteq mask}
    IN IF hits # {} THEN CHOOSE i \in hits : \A j \in hits : j <= i
       ELSE IF WHEEL_MASK \subseteq mask THEN 12
       ELSE -1

\* the window scan without the wheel test
StraightHigh_NoWheel(mask) ==
    LET hits == {i \in 4..12 : StraightMask(i) \subseteq mask}
    IN IF hits # {} THEN CHOOSE i \in hits : \A j \in hits : j <= i
       ELSE -1

\* the window scan `for i in range(12, 3, -1)` followed by the wheel test;
\* the high rank of the first window contained in mask, -1 when there is none
StraightHigh(mask) ==
    LET hits == {i \in 4..12 : StraightMask(i) \subseteq mask}
    IN IF hits # {} THEN CHOOSE i \in hits : \A j \in hits : j <= i
       ELSE IF WHEEL_MASK \subseteq mask THEN 3
       ELSE -1

\* tiebreak nibbles packed one nibble too high, into the category field
RECURSIVE PackRanks_Shift20(_, _, _)
PackRanks_Shift20(list, i, n) ==
    IF i >= n \/ i >= Len(list) THEN 0
    ELSE list[i + 1] * Pow2(20 - 4 * i) + PackRanks_Shift20(list, i + 1, n)

\* score |= k << (16 - 4*i) for the first n entries of a list
RECURSIVE PackRanks(_, _, _)
PackRanks(list, i, n) ==
    IF i >= n \/ i >= Len(list) THEN 0
    ELSE list[i + 1] * Pow2(16 - 4 * i) + PackRanks(list, i + 1, n)

\* the outcome of a call that ends in an uncaught IndexError (kickers[i] past
\* the end of the list); every score is non-negative
IndexError == -1

evaluate_hand(cards) ==
    LET idx == 1..Len(cards)
        ranks == [i \in idx |-> cards[i] % 13]
        suits == [i \in idx |-> cards[i] \div 13]
        flush_suit == FlushScan(suits, 1, [s \in 0..3 |-> 0])
        flush_ranks == SortDesc(SelectSeq([i \in idx |-> IF suits[i] = flush_suit
                                                          THEN ranks[i] ELSE -1],
                                          LAMBDA r : r >= 0))
        flush_mask == {flush_ranks[i] : i \in 1..Len(flush_ranks)}
        sf_high == StraightHigh(flush_mask)
        mask == {ranks[i] : i \in idx}
        st_high == StraightHigh(mask)
        rank_counts == [r \in 0..12 |-> Cardinality({i \in idx : ranks[i] = r})]
        quads == DescSeq({r \in 0..12 : rank_counts[r] = 4})
        trips == DescSeq({r \in 0..12 : rank_counts[r] = 3})
        pairs == DescSeq({r \in 0..12 : rank_counts[r] = 2})
        \* ranks present other than the excluded ones, high to low
        kick(excl) == DescSeq({r \in 0..12 : r \notin excl /\ rank_counts[r] > 0})
        first_or_zero(list) == IF Len(list) > 0 THEN list[1] ELSE 0
    IN
    IF flush_suit # -1 THEN
        IF sf_high # -1 THEN 8 * Pow2(20) + sf_high * Pow2(16)
        ELSE 5 * Pow2(20) + PackRanks(flush_ranks, 0, 5)
    ELSE IF st_high # -1 THEN 4 * Pow2(20) + st_high * Pow2(16)
    ELSE IF Len(quads) > 0 THEN
        7 * Pow2(20) + quads[1] * Pow2(16) + first_or_zero(kick({quads[1]})) * Pow2(12)
    ELSE IF Len(trips) > 0 /\ (Len(trips) >= 2 \/ Len(pairs) > 0) THEN
        LET high_trip == trips[1]
            hp0 == IF Len(trips) >= 2 THEN trips[2] ELSE pairs[1]
            high_pair == IF Len(pairs) > 0 /\ Len(trips) >= 2 /\ pairs[1] > trips[2]
                         THEN pairs[1] ELSE hp0
        IN 6 * Pow2(20) + high_trip * Pow2(16) + high_pair * Pow2(12)
    ELSE IF Len(trips) = 1 THEN
        LET kickers == kick({trips[1]})
        IN IF Len(kickers) < 2 THEN IndexError
           ELSE 3 * Pow2(20) + trips[1] * Pow2(16) + kickers[1] * Pow2(12) + kickers[2] * Pow2(8)
    ELSE IF Len(pairs) >= 2 THEN
        2 * Pow2(20) + pairs[1] * Pow2(16) + pairs[2] * Pow2(12)
            + first_or_zero(kick({pairs[1], pairs[2]})) * Pow2(8)
    ELSE IF Len(pairs) = 1 THEN
        LET kickers == kick({pairs[1]})
        IN IF Len(kickers) < 3 THEN IndexError
           ELSE 1 * Pow2(20) + pairs[1] * Pow2(16) + kickers[1] * Pow2(12)
                    + kickers[2] * Pow2(8) + kickers[3] * Pow2(4)
    ELSE PackRanks(kick({}), 0, 5)

\* ---------------------------------------------------------------------
\* random.seed(base_seed + hand_id); random.shuffle(self.deck)
\* ---------------------------------------------------------------------
\* For a list of 52 items shuffle moves the item at position SHUFFLE[seed][i]
\* to position i; the positions depend on the seed alone.  The tables are the
\* ones CPython's Mersenne Twister produces for the seeds 42 and 46.
ShufflePerm(seed) ==
    CASE seed = 42 -> << 9, 23, 25, 3, 21, 38, 16, 39, 19, 11, 46, 24, 33, 29, 31, 43, 4, 28,
                         10, 26, 36, 0, 44, 18, 42, 50, 35, 48, 30, 20, 22, 12, 51, 32, 45, 13,
                         41, 49, 2, 27, 37, 5, 34, 6, 8, 14, 15, 17, 47, 1, 7, 40 >>
      [] seed = 46 -> << 41, 32, 0, 6, 42, 44, 50, 16, 31, 43, 35, 23, 26, 27, 30, 29, 10, 7,
                         13, 36, 19, 17, 24, 45, 46, 28, 38, 11, 15, 22, 12, 5, 21, 18, 8, 39,
                         3, 20, 51, 1, 49, 34, 47, 9, 33, 40, 14, 48, 37, 2, 25, 4 >>

\* a shuffle that fills the even positions of its table only, so that half of
\* the cards come twice
Shuffle_WithRepeats(d, seed) == [i \in 1..Len(d) |-> d[((2 * ShufflePerm(seed)[i]) % Len(d)) + 1]]

\* the list after random.shuffle(d) under the given seed
Shuffle(d, seed) == [i \in 1..Len(d) |-> d[ShufflePerm(seed)[i] + 1]]

\* list(range(52))
FreshDeck == [i \in 1..52 |-> i - 1]

\* Python slice deck[a:b] of a 0-indexed list
Slice(d, a, b) == [i \in 1..(b - a) |-> d[a + i]]

\* ---------------------------------------------------------------------
\* State
\* ---------------------------------------------------------------------
VARIABLES
    game_config,     \* FastPokerEngine.game_config (sb, bb, stack)
    deck,            \* FastPokerEngine.deck, shuffled in place
    stacks,          \* FastState.stacks
    pot,             \* FastState.pot
    street,          \* FastState.street, 0=Pre, 1=Flop, 2=Turn, 3=River
    board,           \* FastState.board
    hole_cards,      \* FastState.hole_cards
    active_player,   \* FastState.active_player
    bets,            \* FastState.bets, the current-street wagers
    folded,          \* FastState.folded
    hand_complete,   \* FastState.hand_complete
    hand_id,         \* argument of the running play_hand (-1 before the first)
    btn_idx,         \* argument of the running play_hand
    deck_idx,        \* local of play_hand
    first_action,    \* local of _run_street
    last_aggressor,  \* local of _run_street
    pc,              \* control point: "idle", "betting" (line 194), "street_done" (line 128)
    hands_played,    \* number of play_hand calls made on this engine
    actors,          \* history: the players queried so far in the running betting round
    last_action,     \* history: the action sampled at the latest query of the hand
    last_query,      \* history: the StateFeatures of the latest query of the hand
    fn_call          \* the latest direct call of a pure function: its name, arguments and outcome

state_vars == << stacks, pot, street, board, hole_cards, active_player, bets,
                 folded, hand_complete >>

vars == << game_config, deck, stacks, pot, street, board, hole_cards, active_player,
           bets, folded, hand_complete, hand_id, btn_idx, deck_idx, first_action,
           last_aggressor, pc, hands_played, actors, last_action, last_query, fn_call >>

\* the engine's own variables
engine_vars == << game_config, deck, stacks, pot, street, board, hole_cards, active_player,
                  bets, folded, hand_complete, hand_id, btn_idx, deck_idx, first_action,
                  last_aggressor, pc, hands_played, actors, last_action, last_query >>

\* no pure function has been called directly
NoCall == [fn |-> "none"]

\* the observation before the first query of a hand
NoQuery == [p_idx |-> -1, pot_size |-> 0, stack_size |-> 0, street |-> "none", to_call |-> 0]

\* FastPokerEngine.__init__ and FastState.__init__
Init ==
    /\ game_config \in Configs
    /\ deck = FreshDeck
    /\ stacks = [p \in Players |-> game_config.stack]
    /\ pot = 0
    /\ street = 0
    /\ board = << >>
    /\ hole_cards = [p \in Players |-> << >>]
    /\ active_player = 0
    /\ bets = [p \in Players |-> 0]
    /\ folded = FALSE
    /\ hand_complete = FALSE
    /\ hand_id = -1
    /\ btn_idx = 0
    /\ deck_idx = 0
    /\ first_action = TRUE
    /\ last_aggressor = -1
    /\ pc = "idle"
    /\ hands_played = 0
    /\ actors = << >>
    /\ last_action = "none"
    /\ last_query = NoQuery
    /\ fn_call = NoCall

\* ---------------------------------------------------------------------
\* Sampling of the strategy's answer (lines 253-267)
\* ---------------------------------------------------------------------
Keys == << "fold", "call", "raise" >>

\* A strategy's answer: the (key, weight) items of the dict in insertion order.
\* The answers are the empty dict and the dicts over the three keys whose
\* weights add up to at most 1 (all-zero, sub-normalised and normalised ones).
ProbsSet ==
    { << >> } \cup
    { [i \in 1..3 |-> << Keys[i], w[i] >>] :
        w \in {v \in [1..3 -> 0..ProbDen] : v[1] + v[2] + v[3] <= ProbDen} }

\* the draws r = random.random() < 1
Draws == 0..(ProbDen - 1)

RECURSIVE Cum(_, _)
Cum(probs, i) == IF i = 0 THEN 0 ELSE probs[i][2] + Cum(probs, i - 1)

SampleAction(probs0, r) ==
    LET probs == IF probs0 = << >> THEN << << "call", ProbDen >> >> ELSE probs0
        n == Len(probs)
        \* max(probs, key=probs.get): the first key of maximal weight
        amax == CHOOSE i \in 1..n : /\ \A j \in 1..n : probs[j][2] <= probs[i][2]
                                    /\ \A j \in 1..(i - 1) : probs[j][2] < probs[i][2]
        hits == {i \in 1..n : r <= Cum(probs, i)}
    IN IF hits # {} THEN probs[CHOOSE i \in hits : \A j \in hits : i <= j][1]
       ELSE probs[amax][1]

\* ---------------------------------------------------------------------
\* Chip movements of one action (lines 270-343), on c = [stacks, bets, pot]
\* ---------------------------------------------------------------------
Chips == [stacks |-> stacks, bets |-> bets, pot |-> pot]

ToCall(c, p) == c.bets[1 - p] - c.bets[p]

\* the pot handed to the folding player instead of its opponent
ExecFold_ToFolder(c, p) == [c EXCEPT !.stacks[p] = @ + c.pot]

\* lines 279-282
ExecFold(c, p) == [c EXCEPT !.stacks[1 - p] = @ + c.pot]

\* a call that moves the chips into the pot without taking them from the stack
ExecCall_NoDebit(c, p) ==
    LET to_call == ToCall(c, p)
    IN IF to_call = 0 THEN c
       ELSE [stacks |-> c.stacks,
             bets   |-> [c.bets EXCEPT ![p] = @ + to_call],
             pot    |-> c.pot + to_call]

\* an all-in call that commits the stack without refunding the opponent's excess
ExecCall_NoRefund(c, p) ==
    LET to_call == ToCall(c, p)
        amount == IF to_call > c.stacks[p] THEN c.stacks[p] ELSE to_call
    IN IF to_call = 0 THEN c
       ELSE [stacks |-> [c.stacks EXCEPT ![p] = @ - amount],
             bets   |-> [c.bets EXCEPT ![p] = @ + amount],
             pot    |-> c.pot + amount]

\* lines 284-307
ExecCall(c, p) ==
    LET opp == 1 - p
        to_call == ToCall(c, p)
    IN IF to_call = 0 THEN c
       ELSE IF to_call > c.stacks[p] THEN
            LET actual_call == c.stacks[p]
                excess == to_call - actual_call
            IN [stacks |-> [q \in Players |-> IF q = opp THEN c.stacks[q] + excess
                                              ELSE c.stacks[q] - actual_call],
                bets   |-> [q \in Players |-> IF q = opp THEN c.bets[q] - excess
                                              ELSE c.bets[q] + actual_call],
                pot    |-> c.pot - excess + actual_call]
       ELSE [stacks |-> [c.stacks EXCEPT ![p] = @ - to_call],
             bets   |-> [c.bets EXCEPT ![p] = @ + to_call],
             pot    |-> c.pot + to_call]

\* a raise size without the stack cap
RaiseAmount_NoCap(c, p) == ToCall(c, p) + c.pot

\* lines 312-316
RaiseAmount(c, p) ==
    LET amount == ToCall(c, p) + c.pot
    IN IF amount > c.stacks[p] THEN c.stacks[p] ELSE amount

\* lines 309-343
ExecRaise(c, p) ==
    LET opp == 1 - p
        to_call == ToCall(c, p)
        amount == RaiseAmount(c, p)
    IN IF amount <= to_call THEN
            LET actual_call == amount
                excess == to_call - actual_call
            IN [stacks |-> [q \in Players |-> IF q = opp THEN c.stacks[q] + excess
                                              ELSE c.stacks[q] - actual_call],
                bets   |-> [q \in Players |-> IF q = opp THEN c.bets[q] - excess
                                              ELSE c.bets[q] + actual_call],
                pot    |-> c.pot - excess + actual_call]
       ELSE [stacks |-> [c.stacks EXCEPT ![p] = @ - amount],
             bets   |-> [c.bets EXCEPT ![p] = @ + amount],
             pot    |-> c.pot + amount]

\* ---------------------------------------------------------------------
\* FastPokerEngine.play_hand and _run_street
\* ---------------------------------------------------------------------
\* a reset that posts the blinds from the stacks the previous hand left
ResetStacks_CarryOver(cfg, b) ==
    [p \in Players |-> IF p = b THEN stacks[p] - cfg.sb ELSE stacks[p] - cfg.bb]

\* lines 57-58 and 66-77: both stacks are set to starting_stack, then the blinds are taken
ResetStacks(cfg, b) ==
    [p \in Players |-> IF p = b THEN cfg.stack - cfg.sb ELSE cfg.stack - cfg.bb]

\* lines 66-77: the button posts the small blind, the other player the big blind
ResetBets0(cfg, b) == [p \in Players |-> IF p = b THEN cfg.sb ELSE cfg.bb]

\* lines 102-112 (reset, shuffle, deal) and the entry into the first betting round
PlayHand(h, b) ==
    /\ pc = "idle"
    /\ hands_played < MaxHands
    /\ hands_played' = hands_played + 1
    /\ hand_id' = h
    /\ btn_idx' = b
    \* FastState.reset
    /\ stacks' = ResetStacks(game_config, b)
    /\ pot' = game_config.sb + game_config.bb
    /\ street' = 0
    /\ board' = << >>
    /\ bets' = ResetBets0(game_config, b)
    /\ active_player' = b
    /\ folded' = FALSE
    /\ hand_complete' = FALSE
    \* shuffle and deal
    /\ deck' = Shuffle(deck, base_seed + h)
    /\ hole_cards' = [p \in Players |-> IF p = 0 THEN << deck'[1], deck'[2] >>
                                        ELSE << deck'[3], deck'[4] >>]
    /\ deck_idx' = 4
    \* _run_street entered
    /\ first_action' = TRUE
    /\ last_aggressor' = -1
    /\ actors' = << >>
    /\ last_action' = "none"
    /\ last_query' = NoQuery
    /\ pc' = "betting"
    /\ UNCHANGED << fn_call, game_config >>

\* a loop test that closes the round only after a raise has been called
RoundDone_AfterRaiseOnly == ~first_action /\ bets[0] = bets[1] /\ last_aggressor # -1

\* a loop test that forgets the first_action flag
RoundDone_NoFirstAction == bets[0] = bets[1]

\* lines 196-197: the test at the top of the betting loop
RoundDone == ~first_action /\ bets[0] = bets[1]

\* lines 348-351: the safeguard after an action that left the pot at new_pot
Safeguard(new_pot) == new_pot > POT_LIMIT

\* lines 242-248: the StateFeatures handed to the strategy of player p
Features(p) ==
    [p_idx      |-> p,
     pot_size   |-> pot,
     stack_size |-> stacks[p],
     street     |-> IF street = 0 THEN "preflop" ELSE "flop",
     to_call    |-> ToCall(Chips, p)]

\* lines 196-210: the round is done
CloseRound ==
    /\ pc = "betting"
    /\ RoundDone
    /\ pc' = "street_done"
    /\ UNCHANGED << fn_call, game_config, deck, state_vars, hand_id, btn_idx, deck_idx,
                    first_action, last_aggressor, hands_played, actors, last_action,
                    last_query >>

\* lines 219-351: one query of the acting player and the execution of its action
Act(probs, r) ==
    /\ pc = "betting"
    /\ ~RoundDone
    /\ LET p_idx == active_player
           opp_idx == 1 - p_idx
           action == SampleAction(probs, r)
       IN /\ actors' = Append(actors, p_idx)
          /\ last_query' = Features(p_idx)
          /\ last_action' = action
          /\ IF action = "fold" THEN
                /\ folded' = TRUE
                /\ hand_complete' = TRUE
                /\ stacks' = ExecFold(Chips, p_idx).stacks
                /\ pc' = "street_done"
                /\ UNCHANGED << pot, bets, active_player, first_action, last_aggressor >>
             ELSE
                LET c == IF action = "call" THEN ExecCall(Chips, p_idx)
                         ELSE ExecRaise(Chips, p_idx)
                IN /\ stacks' = c.stacks
                   /\ bets' = c.bets
                   /\ pot' = c.pot
                   /\ last_aggressor' =
                         IF action = "raise" /\ RaiseAmount(Chips, p_idx) > ToCall(Chips, p_idx)
                         THEN p_idx ELSE last_aggressor
                   /\ first_action' = FALSE
                   /\ active_player' = opp_idx
                   /\ pc' = IF Safeguard(c.pot) THEN "street_done" ELSE "betting"
                   /\ UNCHANGED << folded, hand_complete >>
    /\ UNCHANGED << fn_call, game_config, deck, street, board, hole_cards, hand_id, btn_idx,
                    deck_idx, hands_played >>

\* lines 128-129: the hand was completed inside the betting round
HandBreak ==
    /\ pc = "street_done"
    /\ hand_complete
    /\ pc' = "idle"
    /\ UNCHANGED << fn_call, game_config, deck, state_vars, hand_id, btn_idx, deck_idx,
                    first_action, last_aggressor, hands_played, actors, last_action,
                    last_query >>

\* a settlement that gives player 0 the pot on equal scores
ShowdownStacks_TieToP0(st, p, score0, score1) ==
    IF score0 >= score1 THEN [st EXCEPT ![0] = @ + p]
    ELSE [st EXCEPT ![1] = @ + p]

\* lines 137-145: the pot goes to the higher score, or is split
ShowdownStacks(st, p, score0, score1) ==
    IF score0 > score1 THEN [st EXCEPT ![0] = @ + p]
    ELSE IF score1 > score0 THEN [st EXCEPT ![1] = @ + p]
    ELSE [q \in Players |-> st[q] + p \div 2]

\* lines 131-148
Showdown ==
    /\ pc = "street_done"
    /\ ~hand_complete
    /\ street = 3
    /\ LET score0 == evaluate_hand(hole_cards[0] \o board)
           score1 == evaluate_hand(hole_cards[1] \o board)
       IN stacks' = ShowdownStacks(stacks, pot, score0, score1)
    /\ hand_complete' = TRUE
    /\ pc' = "idle"
    /\ UNCHANGED << fn_call, game_config, deck, pot, street, board, hole_cards, active_player,
                    bets, folded, hand_id, btn_idx, deck_idx, first_action,
                    last_aggressor, hands_played, actors, last_action, last_query >>

\* a deal that puts a single card on the flop
DealCount_OneFlop(s) == IF s = 1 \/ s = 2 \/ s = 3 THEN 1 ELSE 0

\* lines 155-164: the number of cards dealt on entering street s
DealCount(s) == IF s = 1 THEN 3 ELSE IF s = 2 \/ s = 3 THEN 1 ELSE 0

\* the button starting the later streets as well
PostflopFirst_Button(b) == b

\* line 171: the out-of-position player starts every later street
PostflopFirst(b) == IF b = 0 THEN 1 ELSE 0

\* lines 152-153
ResetBets == [p \in Players |-> 0]

\* lines 150-171 and the entry into the next betting round
AdvanceStreet ==
    /\ pc = "street_done"
    /\ ~hand_complete
    /\ street # 3
    /\ street' = street + 1
    /\ bets' = ResetBets
    /\ board' = board \o Slice(deck, deck_idx, deck_idx + DealCount(street'))
    /\ deck_idx' = deck_idx + DealCount(street')
    /\ active_player' = PostflopFirst(btn_idx)
    /\ first_action' = TRUE
    /\ last_aggressor' = -1
    /\ actors' = << >>
    /\ pc' = "betting"
    /\ UNCHANGED << fn_call, game_config, deck, stacks, pot, hole_cards, folded, hand_complete,
                    hand_id, btn_idx, hands_played, last_action, last_query >>

Next ==
    \/ \E h \in HandIds, b \in Players : PlayHand(h, b)
    \/ CloseRound
    \/ \E probs \in ProbsSet, r \in Draws : Act(probs, r)
    \/ HandBreak
    \/ Showdown
    \/ AdvanceStreet

Spec == Init /\ [][Next]_vars

\* lines 113-171, 196-353: the steps play_hand takes by itself between two
\* strategy queries and on the way to its return, the showdown excepted
EngineStep ==
    \/ CloseRound
    \/ \E probs \in ProbsSet, r \in Draws : Act(probs, r)
    \/ HandBreak
    \/ AdvanceStreet

\* lines 131-148: the showdown step, told by its control transition; under
\* Next the steps that satisfy it are the Showdown steps, and it is enabled
\* exactly where Showdown is
ShowdownStep ==
    /\ pc = "street_done"
    /\ ~hand_complete
    /\ street = 3
    /\ pc' = "idle"

\* play_hand is sequential code and every strategy returns an action: a
\* running hand keeps taking its next step. Nothing forces the caller to
\* start another hand.
SpecLive == Spec /\ WF_vars(EngineStep) /\ WF_pc(ShowdownStep)

\* every value of the model is of the expected shape
TypeOK ==
    /\ game_config \in Configs
    /\ Len(deck) = 52
    /\ street \in 0..3
    /\ active_player \in Players
    /\ pc \in {"idle", "betting", "street_done"}
    /\ last_action \in {"none", "fold", "call", "raise"}
    /\ hands_played \in 0..MaxHands

\* ---------------------------------------------------------------------
\* Properties
\* ---------------------------------------------------------------------
\* play_hand has returned at least once and no hand is running
Returned == pc = "idle" /\ hands_played > 0

\* the step is one query of the acting player (one iteration of lines 219-351)
IsAct == pc = "betting" /\ actors' = Append(actors, active_player)

\* C1: Zero-sum. Whenever play_hand has returned, for any configuration,
\* button index and sequence of sampled actions, stacks[0] + stacks[1] equals
\* twice the starting stack, so the two profits add up to 0.
C1_ZeroSum ==
    Returned => stacks[0] + stacks[1] = 2 * game_config.stack

\* a hand that went through raises to a showdown which player 0 won
W_C1 ==
    /\ Returned
    /\ ~folded
    /\ last_aggressor # -1
    /\ stacks[0] > game_config.stack

\* the deal a fresh engine makes for hand h: Shuffle applied to range(52)
FreshDeal(h) == Shuffle(FreshDeck, base_seed + h)

\* C2: Deterministic replay. In every hand the hole cards and the board are
\* the ones a fresh engine deals for the same hand index, whatever hands were
\* played on the engine before: the deal depends on (base_seed, hand_index) only.
CX_C2 ==
    hands_played > 0 =>
        /\ hole_cards[0] = Slice(FreshDeal(hand_id), 0, 2)
        /\ hole_cards[1] = Slice(FreshDeal(hand_id), 2, 4)
        /\ board = Slice(FreshDeal(hand_id), 4, 4 + Len(board))

\* C3: All-in conservation. When the sampled action is call and the amount to
\* call exceeds the caller's stack, then after the action the two wagers are
\* equal, the caller's stack is 0, the opponent's stack has grown by the excess
\* (to_call - stack) and the pot has lost the excess and gained the stack.
C3_AllInConservation ==
    [][ LET p == active_player
            opp == 1 - p
            to_call == bets[opp] - bets[p]
            excess == to_call - stacks[p]
        IN (IsAct /\ last_action' = "call" /\ to_call > stacks[p]) =>
              /\ bets'[0] = bets'[1]
              /\ stacks'[p] = 0
              /\ stacks'[opp] = stacks[opp] + excess
              /\ pot' = pot - excess + stacks[p]
      ]_vars

\* a call for less than the amount to call has just been executed
W_C3 ==
    /\ actors # << >>
    /\ last_action = "call"
    /\ last_query.to_call > last_query.stack_size
    /\ last_query.to_call - last_query.stack_size > 0
    /\ stacks[last_query.p_idx] = 0

\* C4: Fold is immediately terminal. A sampled fold, whatever the amount to
\* call, completes the hand in that step and adds the whole pot to the other
\* player's stack, leaving the folder's stack unchanged; from then on, until
\* the next play_hand, no player is queried, no card is dealt and no stack
\* changes (no showdown).
C4_FoldTerminal ==
    [][ /\ (IsAct /\ last_action' = "fold") =>
              /\ hand_complete' /\ folded'
              /\ pc' = "street_done"
              /\ stacks'[1 - active_player] = stacks[1 - active_player] + pot
              /\ stacks'[active_player] = stacks[active_player]
        /\ (folded /\ hands_played' = hands_played) =>
              /\ hand_complete' /\ folded'
              /\ pc' = "idle"
              /\ actors' = actors
              /\ last_query' = last_query
              /\ board' = board /\ deck_idx' = deck_idx /\ street' = street
              /\ stacks' = stacks
      ]_vars

\* a hand that ended by a fold although nothing was to call
W_C4 ==
    /\ Returned
    /\ folded
    /\ last_action = "fold"
    /\ last_query.to_call = 0

\* C5: Raise sizing. A raise commits amount = min(to_call + pot, stack).  If
\* amount <= to_call the chips move exactly as the call branch moves them in
\* the same state; otherwise the raiser's stack loses amount, its wager and
\* the pot gain amount, and its wager ends strictly above the opponent's.
C5_RaiseSizing ==
    [][ LET p == active_player
            opp == 1 - p
            to_call == bets[opp] - bets[p]
            amount == IF to_call + pot <= stacks[p] THEN to_call + pot ELSE stacks[p]
        IN (IsAct /\ last_action' = "raise") =>
              IF amount <= to_call
              THEN [stacks |-> stacks', bets |-> bets', pot |-> pot'] = ExecCall(Chips, p)
              ELSE /\ stacks'[p] = stacks[p] - amount
                   /\ bets'[p] = bets[p] + amount
                   /\ pot' = pot + amount
                   /\ stacks'[opp] = stacks[opp] /\ bets'[opp] = bets[opp]
                   /\ bets'[p] > bets'[opp]
      ]_vars

\* a raise capped by the stack has just been executed as a raise
W_C5 ==
    /\ actors # << >>
    /\ last_action = "raise"
    /\ last_query.to_call + last_query.pot_size > last_query.stack_size
    /\ last_query.stack_size > last_query.to_call
    /\ last_aggressor = last_query.p_idx
    /\ stacks[last_query.p_idx] = 0

\* a raise that could not exceed the call has just been executed as a call
W_C5_Downgrade ==
    /\ actors # << >>
    /\ last_action = "raise"
    /\ last_query.stack_size <= last_query.to_call
    /\ last_aggressor = -1

\* the step ends the running betting round without a fold
Closes == pc = "betting" /\ pc' = "street_done" /\ ~folded'

\* C6 as stated: a betting round that is not ended by a fold closes exactly
\* when both wagers are equal and at least one action was taken; it never
\* closes before the first action and never while the wagers differ.
CX_C6 ==
    [][ /\ Closes => (bets'[0] = bets'[1] /\ ~first_action')
        /\ (pc = "betting" /\ bets[0] = bets[1] /\ ~first_action) => Closes
      ]_vars

\* C6 (amended): a betting round that is ended neither by a fold nor by the
\* pot safeguard (pot above POT_LIMIT after an action) closes exactly when
\* both wagers are equal and at least one action was taken; such a round
\* never closes before the first action and never while the wagers differ.
C6_RoundClosing ==
    [][ /\ (Closes /\ pot' <= POT_LIMIT) =>
              (bets'[0] = bets'[1] /\ ~first_action' /\ actors' # << >>)
        /\ (pc = "betting" /\ bets[0] = bets[1] /\ ~first_action) => Closes
        /\ (pc = "betting" /\ pc' = "betting") => (first_action \/ bets[0] # bets[1])
      ]_vars

\* a round closed on equal wagers after a raise and a call
W_C6 ==
    /\ pc = "street_done"
    /\ ~folded
    /\ pot <= POT_LIMIT
    /\ bets[0] = bets[1]
    /\ bets[0] > game_config.bb
    /\ Len(actors) >= 2

\* C7: Runaway-pot safeguard. When a betting round has ended because the pot
\* exceeds POT_LIMIT after an action, the hand ends with it: the next step
\* completes the hand, no later street is entered and no player is queried.
CX_C7 ==
    [][ (pc = "street_done" /\ ~hand_complete /\ pot > POT_LIMIT) =>
            /\ hand_complete'
            /\ street' = street
            /\ actors' = actors
      ]_vars

\* the number of board cards that belongs to a street
BoardCards(s) == IF s = 0 THEN 0 ELSE s + 2

\* C8: Street progression. Within a hand the street never decreases and
\* grows by one at a time, the board holds 0, 3, 4, 5 cards on streets 0..3,
\* both wagers are 0 after each advance, and the hand is completed only by a
\* fold or by the showdown that follows the River round.
C8_StreetProgression ==
    [][ /\ Len(board') = BoardCards(street')
        /\ hands_played' = hands_played =>
              /\ street' \in {street, street + 1}
              /\ street' \in 0..3
              /\ street' = street + 1 => (bets'[0] = 0 /\ bets'[1] = 0)
              /\ (~hand_complete /\ hand_complete') =>
                    \/ (IsAct /\ last_action' = "fold" /\ folded')
                    \/ (pc = "street_done" /\ street = 3 /\ ~folded')
      ]_vars

\* the River was reached after a bet on the Turn
W_C8 ==
    /\ street = 3
    /\ pc = "betting"
    /\ Len(board) = 5
    /\ bets[0] = 0 /\ bets[1] = 0
    /\ pot > game_config.sb + game_config.bb + game_config.bb

\* the seven cards of player p
SevenCards(p) == hole_cards[p] \o board

\* C9: Showdown settlement. When the River round has closed without a fold,
\* each player's hand is its 2 hole cards and the 5 board cards; the strictly
\* higher score gains the whole pot and the other nothing, and on equal scores
\* each player gains exactly half of the pot.
C9_Showdown ==
    [][ (pc = "street_done" /\ ~hand_complete /\ street = 3) =>
          LET s0 == evaluate_hand(SevenCards(0))
              s1 == evaluate_hand(SevenCards(1))
              g0 == stacks'[0] - stacks[0]
              g1 == stacks'[1] - stacks[1]
          IN /\ Len(SevenCards(0)) = 7 /\ Len(SevenCards(1)) = 7
             /\ Len(board) = 5
             /\ hand_complete'
             /\ s0 > s1 => (g0 = pot /\ g1 = 0)
             /\ s1 > s0 => (g1 = pot /\ g0 = 0)
             /\ s0 = s1 => (g0 = g1 /\ g0 + g1 = pot)
      ]_vars

\* a showdown of equal scores has split a pot that was raised
W_C9 ==
    /\ Returned
    /\ ~folded
    /\ street = 3
    /\ evaluate_hand(SevenCards(0)) = evaluate_hand(SevenCards(1))
    /\ pot > game_config.sb + game_config.bb + game_config.bb
    /\ stacks[0] = game_config.stack /\ stacks[1] = game_config.stack

\* the player who starts the betting round of street s
FirstActor(s) == IF s = 0 THEN btn_idx ELSE 1 - btn_idx

\* C10: Acting order. The first player queried on the Preflop street is the
\* button and the first queried on every later street is the non-button;
\* within a round consecutive queries go to different players, and the
\* player to be queried next continues that order.
C10_ActingOrder ==
    hands_played > 0 =>
        /\ actors # << >> => actors[1] = FirstActor(street)
        /\ \A i \in 1..(Len(actors) - 1) : actors[i + 1] # actors[i]
        /\ pc = "betting" =>
              active_player = IF actors = << >> THEN FirstActor(street)
                              ELSE 1 - actors[Len(actors)]

\* on the Turn the non-button was queried first although it acted last before
W_C10 ==
    /\ street = 2
    /\ btn_idx = 0
    /\ Len(actors) >= 3
    /\ actors[1] = 1
    /\ last_query.p_idx = 1

\* C11: Fresh state per hand. At the start of every hand, whatever the
\* previous hand left, the button has starting_stack - small_blind and wager
\* small_blind, the non-button has starting_stack - big_blind and wager
\* big_blind, the pot is small_blind + big_blind, the street is Preflop, the
\* board is empty and the folded and hand-complete flags are false.
C11_FreshState ==
    [][ hands_played' = hands_played + 1 =>
          LET b == btn_idx'
              o == 1 - b
          IN /\ stacks'[b] = game_config.stack - game_config.sb
             /\ bets'[b] = game_config.sb
             /\ stacks'[o] = game_config.stack - game_config.bb
             /\ bets'[o] = game_config.bb
             /\ pot' = game_config.sb + game_config.bb
             /\ street' = 0
             /\ board' = << >>
             /\ ~folded' /\ ~hand_complete'
      ]_vars

\* the second hand on an engine has just been reset and dealt
W_C11 ==
    /\ hands_played = 2
    /\ pc = "betting"
    /\ actors = << >>
    /\ street = 0
    /\ pot = game_config.sb + game_config.bb
    /\ board = << >>

\* ---------------------------------------------------------------------
\* Direct calls of the pure functions
\* ---------------------------------------------------------------------
\* a freshly constructed default engine on which no hand is played
PureInit == Init /\ game_config.stack = starting_stack

\* the answers handed to the sampling code: the empty dict and every dict over
\* the three keys with weights 0, 1/ProbDen, ..., 2 (normalised or not)
SampleProbs ==
    { << >> } \cup
    { [i \in 1..3 |-> << Keys[i], w[i] >>] : w \in [1..3 -> 0..(2 * ProbDen)] }

\* lines 253-267 applied to the answer probs with the draw r
CallSample(probs, r) ==
    /\ fn_call' = [fn |-> "sample", probs |-> probs, r |-> r,
                   result |-> SampleAction(probs, r)]
    /\ UNCHANGED engine_vars

NextSample ==
    /\ fn_call = NoCall
    /\ \E probs \in SampleProbs, r \in Draws : CallSample(probs, r)

SpecSample == PureInit /\ [][NextSample]_vars

\* the sum of the weights of an answer
Total(probs) == Cum(probs, Len(probs))

\* C12: Degenerate strategy output. When the strategy returns an empty
\* mapping or a mapping whose weights are all zero, the action executed is
\* call, never fold or raise.
CX_C12 ==
    (fn_call.fn = "sample" /\ Total(fn_call.probs) = 0) => fn_call.result = "call"

\* the answer with every weight multiplied by k
Scaled(probs, k) == [i \in 1..Len(probs) |-> << probs[i][1], k * probs[i][2] >>]

\* the key whose interval of the cumulative normalised weights contains r / ProbDen
NormalizedPick(probs, r) ==
    LET hits == {i \in 1..Len(probs) : r * Total(probs) < Cum(probs, i) * ProbDen}
    IN probs[CHOOSE i \in hits : \A j \in hits : i <= j][1]

\* C13: Weight normalization. For weights that are not all zero the selected
\* action is the one whose interval of the cumulative normalised weights
\* contains r, and multiplying every weight by the same positive factor does
\* not change the selected action.
CX_C13 ==
    (fn_call.fn = "sample" /\ Total(fn_call.probs) > 0) =>
        /\ fn_call.result = NormalizedPick(fn_call.probs, fn_call.r)
        /\ \A k \in 2..3 : SampleAction(Scaled(fn_call.probs, k), fn_call.r) = fn_call.result

\* the name of street s in the vocabulary of StateFeatures
StreetName(s) ==
    CASE s = 0 -> "preflop" [] s = 1 -> "flop" [] s = 2 -> "turn" [] s = 3 -> "river"

\* C14: Observation street. At every strategy query the street reported in
\* the observation names the current street: 'preflop', 'flop', 'turn' or
\* 'river' for street 0, 1, 2 or 3.
CX_C14 ==
    [][ IsAct => last_query'.street = StreetName(street) ]_vars

\* ---------------------------------------------------------------------
\* Direct calls of evaluate_hand
\* ---------------------------------------------------------------------
\* Sub-decks of nine cards (id = rank + 13 * suit); the hands evaluated are
\* all 7-card hands of each sub-deck and the three hands of verify_engine.py.
EvalDecks ==
    { {12, 0, 1, 2, 3, 4, 16, 17, 38},      \* As 2s 3s 4s 5s 6s 5h 6h Ad
      {12, 13, 27, 41, 3, 17, 37, 50, 7},   \* As 2h 3d 4c 5s 6h Kd Kc 9s
      {8, 22, 36, 50, 12, 20, 32, 11, 25},  \* Ts Jh Qd Kc As 9h 8d Ks Ah
      {0, 15, 31, 46, 9, 24, 38, 50, 26},   \* 2s 4h 7d 9c Js Kh Ad Kc 2d
      {12, 25, 38, 51, 11, 24, 37, 0, 27},  \* As Ah Ad Ac Ks Kh Kd 2s 3d
      {10, 23, 36, 6, 19, 29, 42, 13, 48},  \* Qs Qh Qd 8s 8h 5d 5c 2h Jc
      {11, 10, 9, 7, 5, 2, 0, 24, 31} }     \* Ks Qs Js 9s 7s 4s 2s Kh 7d

\* the hands of test_evaluator: a royal flush, quads and a full house
RoyalFlushHand == << 12, 11, 10, 9, 8, 26, 27 >>
QuadsHand == << 12, 38, 25, 51, 0, 27, 41 >>
FullHouseHand == << 12, 38, 25, 11, 37, 27, 41 >>

EvalHands ==
    { DescSeq(S) : S \in UNION { {T \in SUBSET D : Cardinality(T) = 7} : D \in EvalDecks } }
    \cup { RoyalFlushHand, QuadsHand, FullHouseHand }

\* evaluate_hand of every hand evaluated (the function is pure)
EvalScore == [h \in EvalHands |-> evaluate_hand(h)]

\* evaluate_hand(a) and evaluate_hand(b) for two well-formed hands
CallCompare(a, b) ==
    /\ fn_call' = [fn |-> "compare", a |-> a, b |-> b,
                   score_a |-> EvalScore[a], score_b |-> EvalScore[b]]
    /\ UNCHANGED engine_vars

\* the cards of the lists that break the 7-distinct-cards contract
RawCards == {12, 25, 0}     \* As Ah 2s

\* lists of the wrong length or with a repeated card: every list of up to
\* seven cards over RawCards, and the first 5, 6 and 8 cards of a new deck
RawHands ==
    UNION { [1..n -> RawCards] : n \in 0..7 }
    \cup { Slice(FreshDeck, 0, n) : n \in {5, 6, 8} }

\* evaluate_hand(cards) for a list that is not a hand of 7 distinct cards
CallEvaluate(cards) ==
    /\ fn_call' = [fn |-> "evaluate_hand", cards |-> cards, result |-> evaluate_hand(cards)]
    /\ UNCHANGED engine_vars

NextEval ==
    \/ fn_call = NoCall /\ \E a \in EvalHands, b \in EvalHands : CallCompare(a, b)
    \/ fn_call = NoCall /\ \E cards \in RawHands : CallEvaluate(cards)

SpecEval == PureInit /\ [][NextEval]_vars

\* ---------------------------------------------------------------------
\* Standard poker ranking of a hand, by its best five cards
\* ---------------------------------------------------------------------
CardSet(h) == {h[i] : i \in 1..Len(h)}

\* the distinct ranks of a set of cards ordered by multiplicity, then by rank
RECURSIVE GroupOrder(_, _)
GroupOrder(cs, rs) ==
    IF rs = {} THEN << >>
    ELSE LET n(r) == Cardinality({c \in cs : c % 13 = r})
             m == CHOOSE r \in rs : \A q \in rs : n(q) < n(r) \/ (n(q) = n(r) /\ q <= r)
         IN << m >> \o GroupOrder(cs, rs \ {m})

RECURSIVE Base13(_, _)
Base13(list, i) ==
    IF i > Len(list) THEN 0 ELSE list[i] * 13 ^ (5 - i) + Base13(list, i + 1)

\* the value of five cards: category, then the ranks that break ties
RankFive(cs) ==
    LET rs == {c % 13 : c \in cs}
        hi == CHOOSE r \in rs : \A q \in rs : q <= r
        lo == CHOOSE r \in rs : \A q \in rs : r <= q
        flush == Cardinality({c \div 13 : c \in cs}) = 1
        wheel == rs = {12, 0, 1, 2, 3}
        straight == Cardinality(rs) = 5 /\ (hi - lo = 4 \/ wheel)
        g == GroupOrder(cs, rs)
        n(r) == Cardinality({c \in cs : c % 13 = r})
        cat == IF straight /\ flush THEN 8
               ELSE IF n(g[1]) = 4 THEN 7
               ELSE IF n(g[1]) = 3 /\ n(g[2]) = 2 THEN 6
               ELSE IF flush THEN 5
               ELSE IF straight THEN 4
               ELSE IF n(g[1]) = 3 THEN 3
               ELSE IF n(g[1]) = 2 /\ n(g[2]) = 2 THEN 2
               ELSE IF n(g[1]) = 2 THEN 1
               ELSE 0
        tie == IF straight THEN << IF wheel THEN 3 ELSE hi >> ELSE g
    IN cat * 13 ^ 5 + Base13(tie, 1)

\* the value of the best five cards of a hand
BestFive(h) ==
    LET vals == {RankFive(T) : T \in {U \in SUBSET CardSet(h) : Cardinality(U) = 5}}
    IN CHOOSE v \in vals : \A w \in vals : w <= v

\* the standard value of every evaluated hand
Standard == [h \in EvalHands |-> BestFive(h)]

\* the standard category of an evaluated hand, 0 (high card) to 8 (straight flush)
StdCategory(h) == Standard[h] \div 13 ^ 5

\* C15: Evaluator total order. For any two hands of 7 distinct cards the
\* score of A exceeds the score of B exactly when A's best five cards beat
\* B's under the standard ranking, and the scores are equal exactly when the
\* best five cards tie.
C15_TotalOrder ==
    fn_call.fn = "compare" =>
        /\ (fn_call.score_a > fn_call.score_b) <=> (Standard[fn_call.a] > Standard[fn_call.b])
        /\ (fn_call.score_a = fn_call.score_b) <=> (Standard[fn_call.a] = Standard[fn_call.b])

\* two different hands that tie: the same two pair with the same kicker
W_C15 ==
    /\ fn_call.fn = "compare"
    /\ fn_call.a # fn_call.b
    /\ CardSet(fn_call.a) # CardSet(fn_call.b)
    /\ fn_call.score_a = fn_call.score_b
    /\ StdCategory(fn_call.a) = 2

\* the category field of a score: score >> 20
Category(score) == score \div Pow2(20)

\* C16: Category field. For every 7-card hand evaluate_hand(cards) >> 20 is
\* the category number of the hand (8 straight flush ... 0 high card), so
\* every straight flush scores strictly above every quads hand, which scores
\* strictly above every full house; the three hands of test_evaluator are
\* of categories 8, 7 and 6.
C16_CategoryField ==
    fn_call.fn = "compare" =>
        /\ Category(fn_call.score_a) = StdCategory(fn_call.a)
        /\ (StdCategory(fn_call.a) = 8 /\ StdCategory(fn_call.b) = 7) => fn_call.score_a > fn_call.score_b
        /\ (StdCategory(fn_call.a) = 7 /\ StdCategory(fn_call.b) = 6) => fn_call.score_a > fn_call.score_b
        /\ fn_call.a = RoyalFlushHand => Category(fn_call.score_a) = 8
        /\ fn_call.a = QuadsHand => Category(fn_call.score_a) = 7
        /\ fn_call.a = FullHouseHand => Category(fn_call.score_a) = 6

\* the quads of test_evaluator against an ace-high flush, whose top
\* tiebreak nibble is the largest a rank can fill
W_C16 ==
    /\ fn_call.fn = "compare"
    /\ fn_call.a = QuadsHand
    /\ Category(fn_call.score_a) = 7
    /\ Category(fn_call.score_b) = 5
    /\ (fn_call.score_b \div Pow2(16)) % 16 = 12

\* the first tiebreak field of a score: (score >> 16) & 0xF
Tiebreak(score) == (score \div Pow2(16)) % 16

RankSet(h) == {c % 13 : c \in CardSet(h)}

\* the ranks a hand holds in suit s
SuitRanks(h, s) == {c % 13 : c \in {x \in CardSet(h) : x \div 13 = s}}

HasFlush(h) == \E s \in 0..3 : Cardinality(SuitRanks(h, s)) >= 5

\* the top ranks (Six to Ace) of the runs of five consecutive ranks within rs
Runs(rs) == {i \in 4..12 : \A r \in (i - 4)..i : r \in rs}

Wheel == {12, 0, 1, 2, 3}

\* Ace, 2, 3, 4, 5 with no higher straight and no flush
WheelHand(h) == Wheel \subseteq RankSet(h) /\ Runs(RankSet(h)) = {} /\ ~HasFlush(h)

\* a straight whose top card is the Six, with no flush
SixHighStraight(h) == Runs(RankSet(h)) = {4} /\ ~HasFlush(h)

\* as stated, C17 ranks a wheel above every hand that is not a straight,
\* flushes, full houses and quads included
CX_C17 ==
    (fn_call.fn = "compare" /\ WheelHand(fn_call.a)) =>
        /\ Category(fn_call.score_a) = 4
        /\ Tiebreak(fn_call.score_a) = 3
        /\ SixHighStraight(fn_call.b) => fn_call.score_a < fn_call.score_b
        /\ StdCategory(fn_call.b) \notin {4, 8} => fn_call.score_a > fn_call.score_b

\* C17: Wheel handling. Every 7-card hand containing Ace, 2, 3, 4, 5 with no
\* higher straight and no flush scores as category 4 with tiebreak Five (3),
\* strictly below any 6-high straight and strictly above any hand of a
\* category below the straight (three of a kind, two pair, pair, high card).
C17_Wheel ==
    (fn_call.fn = "compare" /\ WheelHand(fn_call.a)) =>
        /\ Category(fn_call.score_a) = 4
        /\ Tiebreak(fn_call.score_a) = 3
        /\ SixHighStraight(fn_call.b) => fn_call.score_a < fn_call.score_b
        /\ StdCategory(fn_call.b) < 4 => fn_call.score_a > fn_call.score_b

\* a wheel holding a pair of kings against a 6-high straight
W_C17 ==
    /\ fn_call.fn = "compare"
    /\ WheelHand(fn_call.a)
    /\ Cardinality({c \in CardSet(fn_call.a) : c % 13 = 11}) = 2
    /\ SixHighStraight(fn_call.b)
    /\ fn_call.score_a < fn_call.score_b

\* the suit of which a hand holds at least five cards
FlushSuit(h) == CHOOSE s \in 0..3 : Cardinality(SuitRanks(h, s)) >= 5

\* the runs of five consecutive ranks within the flush suit
SuitedRuns(h) == Runs(SuitRanks(h, FlushSuit(h)))

SuitedWheel(h) == Wheel \subseteq SuitRanks(h, FlushSuit(h))

\* a straight flush whose best window is A,2,3,4,5
WheelStraightFlush(h) == HasFlush(h) /\ SuitedRuns(h) = {} /\ SuitedWheel(h)

\* a flush with a straight over all cards but none within the flush suit
FlushWithMixedStraight(h) ==
    /\ HasFlush(h)
    /\ SuitedRuns(h) = {} /\ ~SuitedWheel(h)
    /\ (Runs(RankSet(h)) # {} \/ Wheel \subseteq RankSet(h))

\* C18: Straight flush within the flush suit. A hand is scored category 8
\* only if five rank-consecutive cards (or A,2,3,4,5) all belong to the suit
\* holding at least 5 cards, the tiebreak being the top rank of the highest
\* such window; a wheel straight flush is scored 5-high, strictly below every
\* 6-high-or-better straight flush; a flush with a straight formed from
\* mixed suits is scored category 5.
C18_StraightFlushInSuit ==
    fn_call.fn = "compare" =>
        LET a == fn_call.a
            b == fn_call.b
        IN /\ Category(fn_call.score_a) = 8 =>
                  /\ HasFlush(a)
                  /\ SuitedRuns(a) # {} \/ SuitedWheel(a)
                  /\ Tiebreak(fn_call.score_a) =
                         IF SuitedRuns(a) # {}
                         THEN CHOOSE i \in SuitedRuns(a) : \A j \in SuitedRuns(a) : j <= i
                         ELSE 3
           /\ WheelStraightFlush(a) =>
                  /\ Category(fn_call.score_a) = 8
                  /\ Tiebreak(fn_call.score_a) = 3
                  /\ (HasFlush(b) /\ SuitedRuns(b) # {}) => fn_call.score_a < fn_call.score_b
           /\ FlushWithMixedStraight(a) => Category(fn_call.score_a) = 5

\* a wheel straight flush against a 6-high straight flush that also holds
\* the suited ace
W_C18 ==
    /\ fn_call.fn = "compare"
    /\ WheelStraightFlush(fn_call.a)
    /\ HasFlush(fn_call.b)
    /\ SuitedRuns(fn_call.b) = {4} /\ SuitedWheel(fn_call.b)
    /\ Category(fn_call.score_b) = 8
    /\ fn_call.score_a < fn_call.score_b

\* a list of exactly 7 cards without a repeated card id
WellFormed(cards) == Len(cards) = 7 /\ Cardinality(CardSet(cards)) = 7

\* as stated, C19 has every call with a list of the wrong length or with a
\* repeated card end in an error instead of a score
CX_C19 ==
    (fn_call.fn = "evaluate_hand" /\ ~WellFormed(fn_call.cards)) => fn_call.result = IndexError

\* ---------------------------------------------------------------------
\* Card codec: card_to_int and int_to_card
\* ---------------------------------------------------------------------
RANK_MAP ==
    "2" :> 0 @@ "3" :> 1 @@ "4" :> 2 @@ "5" :> 3 @@ "6" :> 4 @@ "7" :> 5 @@ "8" :> 6
    @@ "9" :> 7 @@ "T" :> 8 @@ "J" :> 9 @@ "Q" :> 10 @@ "K" :> 11 @@ "A" :> 12

SUIT_MAP == "s" :> 0 @@ "h" :> 1 @@ "d" :> 2 @@ "c" :> 3

INT_TO_RANK == << "2", "3", "4", "5", "6", "7", "8", "9", "T", "J", "Q", "K", "A" >>

INT_TO_SUIT == << "s", "h", "d", "c" >>

\* the outcome of a call: a returned value or the exception raised
Return(v) == [raised |-> "none", value |-> v]

Raise(e) == [raised |-> e]

\* list[i] of a Python list is defined for -len(list) <= i < len(list);
\* a negative index counts from the end
InRange(list, i) == -Len(list) <= i /\ i < Len(list)

ListGet(list, i) == IF i >= 0 THEN list[i + 1] ELSE list[Len(list) + i + 1]

\* a card token is the sequence of its characters
card_to_int(card_str) ==
    IF Len(card_str) < 2 THEN Raise("IndexError")
    ELSE IF card_str[1] \notin DOMAIN RANK_MAP \/ card_str[2] \notin DOMAIN SUIT_MAP
         THEN Raise("KeyError")
    ELSE Return(RANK_MAP[card_str[1]] + SUIT_MAP[card_str[2]] * 13)

int_to_card(card_int) ==
    IF ~InRange(INT_TO_RANK, card_int % 13) \/ ~InRange(INT_TO_SUIT, card_int \div 13)
    THEN Raise("IndexError")
    ELSE Return(<< ListGet(INT_TO_RANK, card_int % 13), ListGet(INT_TO_SUIT, card_int \div 13) >>)

\* the characters of the tokens encoded: the rank and suit symbols and two
\* characters that are neither
CodecChars == DOMAIN RANK_MAP \cup DOMAIN SUIT_MAP \cup {"a", "1"}

CodecTokens == [1..2 -> CodecChars]

\* the integers decoded: the ids and a margin of more than a deck on each side
CodecInts == (-60)..111

\* the local strings of card_str_to_int, as sequences of characters
ranks_string == << "2", "3", "4", "5", "6", "7", "8", "9", "T", "J", "Q", "K", "A" >>

\* str.find in place of str.index: -1 for a character that does not occur
StrIndex_Find(str, ch) ==
    LET hits == {i \in 1..Len(str) : str[i] = ch}
    IN IF hits = {} THEN Return(-1)
       ELSE Return((CHOOSE i \in hits : \A j \in hits : i <= j) - 1)

\* str.index(ch) for a single character: the first position, or ValueError
StrIndex(str, ch) ==
    LET hits == {i \in 1..Len(str) : str[i] = ch}
    IN IF hits = {} THEN Raise("ValueError")
       ELSE Return((CHOOSE i \in hits : \A j \in hits : i <= j) - 1)

card_str_to_int(card_str) ==
    IF Len(card_str) < 2 THEN Raise("IndexError")
    ELSE LET r_char == card_str[1]
             s_char == card_str[2]
             rank == StrIndex(ranks_string, r_char)
         IN IF rank.raised # "none" THEN rank
            ELSE IF s_char = "s" THEN Return(0 * 13 + rank.value)
            ELSE IF s_char = "h" THEN Return(1 * 13 + rank.value)
            ELSE IF s_char = "d" THEN Return(2 * 13 + rank.value)
            ELSE IF s_char = "c" THEN Return(3 * 13 + rank.value)
            ELSE Raise("ValueError")

\* the tokens given to both encoders: the two-character tokens and the
\* tokens too short to hold a rank and a suit character
EncodeInputs == CodecTokens \cup [1..1 -> CodecChars] \cup { << >> }

\* card_to_int(card_str) and card_str_to_int(card_str) on the same token
CallEncode(card_str) ==
    /\ fn_call' = [fn |-> "encode", arg |-> card_str,
                   result |-> card_to_int(card_str), result_eq |-> card_str_to_int(card_str)]
    /\ UNCHANGED engine_vars

CallCardToInt(card_str) ==
    /\ fn_call' = [fn |-> "card_to_int", arg |-> card_str, result |-> card_to_int(card_str)]
    /\ UNCHANGED engine_vars

CallIntToCard(card_int) ==
    /\ fn_call' = [fn |-> "int_to_card", arg |-> card_int, result |-> int_to_card(card_int)]
    /\ UNCHANGED engine_vars

NextCodec ==
    \/ fn_call = NoCall /\ \E card_str \in CodecTokens : CallCardToInt(card_str)
    \/ fn_call = NoCall /\ \E card_int \in CodecInts : CallIntToCard(card_int)
    \/ fn_call = NoCall /\ \E card_str \in EncodeInputs : CallEncode(card_str)

SpecCodec == PureInit /\ [][NextCodec]_vars

\* the 52 tokens: a rank symbol followed by a suit symbol
CardTokens == {t \in CodecTokens : t[1] \in DOMAIN RANK_MAP /\ t[2] \in DOMAIN SUIT_MAP}

\* as stated, C20 has the two functions mutually inverse between the 52
\* tokens and the ids 0..51, and no integer outside [0,52) decode to a token
CX_C20 ==
    /\ (fn_call.fn = "card_to_int" /\ fn_call.arg \in CardTokens) =>
           /\ fn_call.result.raised = "none"
           /\ fn_call.result.value = RANK_MAP[fn_call.arg[1]] + 13 * SUIT_MAP[fn_call.arg[2]]
           /\ fn_call.result.value \in 0..51
           /\ int_to_card(fn_call.result.value) = Return(fn_call.arg)
    /\ (fn_call.fn = "int_to_card" /\ fn_call.arg \in 0..51) =>
           /\ fn_call.result.raised = "none"
           /\ fn_call.result.value \in CardTokens
           /\ card_to_int(fn_call.result.value) = Return(fn_call.arg)
    /\ (fn_call.fn = "int_to_card" /\ fn_call.arg \notin 0..51) =>
           fn_call.result.raised # "none"

\* C21: Card codec rejection. Encoding a token whose rank character is not
\* one of the 13 rank symbols or whose suit character is not one of the 4
\* suit symbols raises an error and returns no id, in card_to_int and in
\* card_str_to_int alike; on each of the 52 valid tokens the two encoders
\* return the same id.
C21_CodecRejection ==
    fn_call.fn = "encode" =>
        IF fn_call.arg \in CardTokens
        THEN /\ fn_call.result.raised = "none"
             /\ fn_call.result_eq = fn_call.result
        ELSE /\ fn_call.result.raised # "none"
             /\ fn_call.result_eq.raised # "none"

\* a valid rank character followed by a character that is no suit symbol:
\* KeyError from the dict lookup, ValueError from the if-chain
W_C21 ==
    /\ fn_call.fn = "encode"
    /\ Len(fn_call.arg) = 2
    /\ fn_call.arg[1] \in DOMAIN RANK_MAP
    /\ fn_call.arg[2] \notin DOMAIN SUIT_MAP
    /\ fn_call.result = Raise("KeyError")
    /\ fn_call.result_eq = Raise("ValueError")

\* ---------------------------------------------------------------------
\* EquityCalculator.calculate_equity
\* ---------------------------------------------------------------------
\* the largest iteration count passed to calculate_equity
MaxIterations == 2

full_deck == [i \in 1..52 |-> i - 1]

\* the cards random.sample may return in the model, and of which the hole
\* cards and boards passed are made            Ks Qh Kh Qd Ad Ac 7s 7d 2c 3s
SampleCards == {11, 23, 24, 36, 38, 51, 5, 31, 39, 1}

\* hero's hole cards: Ks Qh, Ac Kh
EquityHoles == { << 11, 23 >>, << 51, 24 >> }

\* the boards: the first 0 to 5 cards of 7s 7d 2c Ad 3s
EquityBoards == { SubSeq(<< 5, 31, 39, 38, 1 >>, 1, n) : n \in 0..5 }

EquityIterations == (-1)..MaxIterations

\* the available cards when only the hole cards are taken as visible
EquityDeck_HoleOnly(hole, brd) ==
    LET visible == {hole[i] : i \in 1..Len(hole)}
    IN SelectSeq(full_deck, LAMBDA c : c \notin visible)

\* visible = set(hole_cards + board); deck = [c for c in full_deck if c not in visible]
EquityDeck(hole, brd) ==
    LET visible == {(hole \o brd)[i] : i \in 1..Len(hole \o brd)}
    IN SelectSeq(full_deck, LAMBDA c : c \notin visible)

\* outcomes of random.sample(deck, sample_size): sample_size distinct
\* elements of the available cards; those enumerated are made of SampleCards, the first two
\* and the others each in descending order
SampleOutcomes(avail, sample_size) ==
    LET pool == {avail[i] : i \in 1..Len(avail)} \cap SampleCards
    IN UNION { { DescSeq(o) \o DescSeq(r) :
                     r \in {T \in SUBSET (pool \ o) : Cardinality(T) = sample_size - 2} } :
               o \in {T \in SUBSET pool : Cardinality(T) = 2} }

\* the state of a call before its first iteration; string cards, as the
\* engine passes them, are converted by card_str_to_int (lines 55-58)
CallEquity(hole_in, board_in, iterations, strings) ==
    LET tokens(list) == [i \in 1..Len(list) |-> int_to_card(list[i]).value]
        ints(list) == [i \in 1..Len(list) |-> card_str_to_int(list[i]).value]
        hole == IF strings THEN ints(tokens(hole_in)) ELSE hole_in
        brd == IF strings THEN ints(tokens(board_in)) ELSE board_in
    IN /\ fn_call' = [fn |-> "calculate_equity", pc |-> "loop",
                      hole_cards |-> hole, board |-> brd, iterations |-> iterations,
                      deck |-> EquityDeck(hole, brd), needed_board |-> 5 - Len(brd),
                      done |-> 0, wins |-> 0, splits |-> 0,
                      drawn |-> << >>, result |-> Raise("pending")]
       /\ UNCHANGED engine_vars

\* line 76-77: drawn = random.sample(deck, 2 + needed_board)
EquityDraw ==
    /\ fn_call.fn = "calculate_equity" /\ fn_call.pc = "loop"
    /\ fn_call.done < fn_call.iterations
    /\ \E drawn \in SampleOutcomes(fn_call.deck, 2 + fn_call.needed_board) :
           fn_call' = [fn_call EXCEPT !.pc = "drawn", !.drawn = drawn]
    /\ UNCHANGED engine_vars

\* lines 79-82 and the two lists passed to evaluate_hand at lines 84-85
opp_cards(c) == SubSeq(c.drawn, 1, 2)

runout(c) == SubSeq(c.drawn, 3, Len(c.drawn))

full_board(c) == c.board \o runout(c)

MyHand(c) == c.hole_cards \o full_board(c)

OppHand(c) == opp_cards(c) \o full_board(c)

\* lines 84-90: both hands are evaluated and the iteration is counted
EquityScore ==
    /\ fn_call.fn = "calculate_equity" /\ fn_call.pc = "drawn"
    /\ LET my_score == evaluate_hand(MyHand(fn_call))
           opp_score == evaluate_hand(OppHand(fn_call))
       IN fn_call' = [fn_call EXCEPT
                          !.pc = "loop", !.drawn = << >>, !.done = @ + 1,
                          !.wins = IF my_score > opp_score THEN @ + 1 ELSE @,
                          !.splits = IF my_score = opp_score THEN @ + 1 ELSE @]
    /\ UNCHANGED engine_vars

\* line 92: (wins + splits / 2.0) / iterations, as the fraction
\* (2 * wins + splits) / (2 * iterations); a zero divisor raises
EquityReturn ==
    /\ fn_call.fn = "calculate_equity" /\ fn_call.pc = "loop"
    /\ ~(fn_call.done < fn_call.iterations)
    /\ fn_call' = [fn_call EXCEPT
                       !.pc = "done",
                       !.result = IF fn_call.iterations = 0 THEN Raise("ZeroDivisionError")
                                  ELSE Return([num |-> 2 * fn_call.wins + fn_call.splits,
                                               den |-> 2 * fn_call.iterations])]
    /\ UNCHANGED engine_vars

NextEquity ==
    \/ fn_call = NoCall /\ \E hole_in \in EquityHoles, board_in \in EquityBoards,
                              iterations \in EquityIterations, strings \in BOOLEAN :
                                  CallEquity(hole_in, board_in, iterations, strings)
    \/ EquityDraw
    \/ EquityScore
    \/ EquityReturn

SpecEquity == PureInit /\ [][NextEquity]_vars

\* the cards of a list are pairwise distinct
Distinct(list) == Cardinality({list[i] : i \in 1..Len(list)}) = Len(list)

\* C22: Equity sampling. In every iteration exactly 2 + (5 - |board|) cards
\* are drawn without replacement from the 52 cards minus hero's hole cards
\* minus the given board: the opponent's hole cards and the run-out are
\* pairwise distinct and disjoint from hero's cards and the board, and both
\* evaluated hands are 7 distinct cards sharing the same 5-card board.
C22_EquitySampling ==
    (fn_call.fn = "calculate_equity" /\ fn_call.pc = "drawn") =>
        LET c == fn_call
            seen == CardSet(c.hole_cards) \cup CardSet(c.board)
        IN /\ Len(c.drawn) = 2 + (5 - Len(c.board))
           /\ Distinct(c.drawn)
           /\ CardSet(c.drawn) \subseteq (0..51) \ seen
           /\ Len(opp_cards(c)) = 2
           /\ Len(full_board(c)) = 5
           /\ Len(MyHand(c)) = 7 /\ Distinct(MyHand(c))
           /\ Len(OppHand(c)) = 7 /\ Distinct(OppHand(c))
           /\ SubSeq(MyHand(c), 3, 7) = full_board(c)
           /\ SubSeq(OppHand(c), 3, 7) = full_board(c)

\* second iteration on a flop: the opponent is dealt the turn card of the
\* longer boards, which is unseen here
W_C22 ==
    /\ fn_call.fn = "calculate_equity" /\ fn_call.pc = "drawn"
    /\ fn_call.done = 1
    /\ Len(fn_call.board) = 3
    /\ 38 \in CardSet(opp_cards(fn_call))

\* a fraction num / den with a non-zero divisor lies in [0,1]
InUnit(q) ==
    IF q.den > 0 THEN 0 <= q.num /\ q.num <= q.den
    ELSE q.den <= q.num /\ q.num <= 0

\* as stated, C23 has every call return (wins + ties/2) / iterations, a
\* value in [0,1], for any hole cards, board and iteration count
CX_C23 ==
    (fn_call.fn = "calculate_equity" /\ fn_call.pc = "done") =>
        /\ fn_call.result.raised = "none"
        /\ fn_call.result.value.num = 2 * fn_call.wins + fn_call.splits
        /\ fn_call.result.value.den = 2 * fn_call.iterations
        /\ fn_call.wins + fn_call.splits <= fn_call.done
        /\ InUnit(fn_call.result.value)

\* ---------------------------------------------------------------------
\* Preflop table loaders: GTOBTable._load and _load_gtob_preflop_v1
\* ---------------------------------------------------------------------
\* a file is absent or holds a sequence of bytes; b"GTOB"
GTOB == << 71, 84, 79, 66 >>

\* struct.unpack of little-endian "<H" and "<I" fields
LE16(b) == b[1] + 256 * b[2]

LE32(b) == b[1] + 256 * b[2] + 65536 * b[3] + 16777216 * b[4]

\* f.read(n) at offset pos: the n next bytes, or those left
Read(data, pos, n) ==
    SubSeq(data, pos + 1, IF pos + n <= Len(data) THEN pos + n ELSE Len(data))

\* the loop of GTOBTable._load: a short record ends the loop and the entries
\* read so far stay in self.lut; a record of total 0 is skipped
RECURSIVE GTOBLoop(_, _, _, _)
GTOBLoop(data, pos, count, lut) ==
    IF count = 0 THEN lut
    ELSE LET rec == Read(data, pos, 5)
         IN IF Len(rec) < 5 THEN lut
            ELSE LET hid == LE16(SubSeq(rec, 1, 2))
                     qf == rec[3]
                     qc == rec[4]
                     qr == rec[5]
                     entry == [fold |-> qf, call |-> qc, raise |-> qr, den |-> 255]
                 IN GTOBLoop(data, pos + 5, count - 1,
                             IF qf + qc + qr = 0 THEN lut ELSE (hid :> entry) @@ lut)

\* GTOBTable._load: the exception that leaves the loader and self.lut
GTOBTable_load(file) ==
    IF ~file.exists THEN [raised |-> "FileNotFoundError", lut |-> << >>]
    ELSE LET header == Read(file.data, 0, 12)
         IN IF Len(header) # 12 THEN [raised |-> "struct.error", lut |-> << >>]
            ELSE IF SubSeq(header, 1, 4) # GTOB
                 THEN [raised |-> "AssertionError", lut |-> << >>]
            ELSE [raised |-> "none",
                  lut |-> GTOBLoop(file.data, 12, LE32(SubSeq(header, 7, 10)), << >>)]

\* the loop of _load_gtob_preflop_v1: a short record makes struct.unpack raise
RECURSIVE PreflopLoop(_, _, _, _)
PreflopLoop(data, pos, count, lut) ==
    IF count = 0 THEN [raised |-> "none", lut |-> lut]
    ELSE LET rec == Read(data, pos, 8)
         IN IF Len(rec) # 8 THEN [raised |-> "struct.error", lut |-> lut]
            ELSE LET hid == LE16(SubSeq(rec, 1, 2))
                     pf == LE16(SubSeq(rec, 3, 4))
                     pc_ == LE16(SubSeq(rec, 5, 6))
                     pr == LE16(SubSeq(rec, 7, 8))
                     total == pf + pc_ + pr
                     entry == IF total > 0
                              THEN [fold |-> pf, call |-> pc_, raise |-> pr, den |-> total]
                              ELSE [fold |-> 1, call |-> 0, raise |-> 0, den |-> 1]
                 IN PreflopLoop(data, pos + 8, count - 1, (hid :> entry) @@ lut)

\* _load_gtob_preflop_v1: every Exception is caught and {} returned
load_gtob_preflop_v1(file) ==
    LET empty == [raised |-> "none", lut |-> << >>]
    IN IF ~file.exists THEN empty
       ELSE IF Read(file.data, 0, 4) # GTOB THEN empty
       ELSE IF Len(Read(file.data, 4, 2)) # 2 THEN empty
       ELSE IF Len(Read(file.data, 7, 2)) # 2 THEN empty
       ELSE LET r == PreflopLoop(file.data, 9, LE16(Read(file.data, 7, 2)), << >>)
            IN IF r.raised # "none" THEN empty ELSE r

\* the bytes struct.pack writes for "<H" and "<I" fields
B16(n) == << n % 256, n \div 256 >>

B32(n) == << n % 256, (n \div 256) % 256, (n \div 65536) % 256, n \div 16777216 >>

\* the first n sequences of a list, concatenated
RECURSIVE Flat(_, _)
Flat(list, n) == IF n = 0 THEN << >> ELSE Flat(list, n - 1) \o list[n]

\* "<HBBB" records: hand 0 folds, hand 1 calls or raises, hand 2 has total 0
GTOBRecords == << << 0, 0, 255, 0, 0 >>, << 1, 0, 0, 128, 127 >>, << 2, 0, 0, 0, 0 >> >>

\* "<HHHH" records of the same three hands, with 16-bit weights
PreflopRecords ==
    << << 0, 0, 44, 1, 0, 0, 0, 0 >>, << 1, 0, 0, 0, 100, 0, 200, 0 >>,
       << 2, 0, 0, 0, 0, 0, 0, 0 >> >>

\* a complete file of n records: header "<4sHIH", then the records
GTOBFile(n) == GTOB \o B16(1) \o B32(n) \o B16(0) \o Flat(GTOBRecords, n)

\* a complete file of n records: magic, "<H" version, type byte, "<H" count
PreflopFile(n) == GTOB \o B16(1) \o << 0 >> \o B16(n) \o Flat(PreflopRecords, n)

\* a complete file, the file cut after any number of bytes, and the file
\* with another first byte
Damaged(data) ==
    {SubSeq(data, 1, k) : k \in 0..Len(data)} \cup {[data EXCEPT ![1] = 88]}

NoFile == [exists |-> FALSE, data |-> << >>]

GTOBFiles ==
    {NoFile} \cup {[exists |-> TRUE, data |-> x] :
                       x \in UNION {Damaged(GTOBFile(n)) : n \in 0..Len(GTOBRecords)}}

PreflopFiles ==
    {NoFile} \cup {[exists |-> TRUE, data |-> x] :
                       x \in UNION {Damaged(PreflopFile(n)) : n \in 0..Len(PreflopRecords)}}

\* GTOBTable(path): self.lut = {} and self._load()
CallGTOBTableLoad(file) ==
    /\ fn_call' = [fn |-> "GTOBTable._load", file |-> file, result |-> GTOBTable_load(file)]
    /\ UNCHANGED engine_vars

CallLoadPreflopV1(file) ==
    /\ fn_call' = [fn |-> "_load_gtob_preflop_v1", file |-> file,
                   result |-> load_gtob_preflop_v1(file)]
    /\ UNCHANGED engine_vars

NextLut ==
    \/ fn_call = NoCall /\ \E file \in GTOBFiles : CallGTOBTableLoad(file)
    \/ fn_call = NoCall /\ \E file \in PreflopFiles : CallLoadPreflopV1(file)

SpecLut == PureInit /\ [][NextLut]_vars

\* the three failures of a load: no file, another magic, or fewer bytes
\* than the header and the records it announces
Missing(file) == ~file.exists

WrongMagic(file) == file.exists /\ Read(file.data, 0, 4) # GTOB

Truncated(call) ==
    LET data == call.file.data
        gtob == call.fn = "GTOBTable._load"
        header == IF gtob THEN 12 ELSE 9
        count == IF gtob THEN LE32(SubSeq(data, 7, 10)) ELSE LE16(SubSeq(data, 8, 9))
        size == IF gtob THEN 5 ELSE 8
    IN /\ call.file.exists /\ ~WrongMagic(call.file)
       /\ Len(data) < header \/ Len(data) < header + count * size

\* as stated, C24 has every failed load leave the table empty without
\* raising out of the loader, for both loaders
CX_C24 ==
    (/\ fn_call.fn \in {"GTOBTable._load", "_load_gtob_preflop_v1"}
     /\ Missing(fn_call.file) \/ WrongMagic(fn_call.file) \/ Truncated(fn_call)) =>
        /\ fn_call.result.raised = "none"
        /\ DOMAIN fn_call.result.lut = {}

\* the players queried so far in the current betting round
Queried == {actors[i] : i \in 1..Len(actors)}

\* as stated, C25 has both players queried in every betting round that is
\* not ended by a fold, before the round closes
CX_C25 ==
    [][ (pc = "betting" /\ pc' = "street_done" /\ ~folded') => Queried' = Players ]_vars

\* a hand has been started and is not complete
InHand == hands_played > 0 /\ ~hand_complete

\* as stated, C26 has the chips conserved and both stacks, both wagers and
\* the pot non-negative in every state of a hand before it completes
CX_C26 ==
    InHand =>
        /\ stacks[0] + stacks[1] + pot = 2 * game_config.stack
        /\ \A p \in Players : stacks[p] >= 0 /\ bets[p] >= 0
        /\ pot >= 0

\* the engine runs the default GameConfig: stacks of 200, blinds 0.5 / 1
DefaultConfig ==
    /\ game_config.stack = starting_stack
    /\ game_config.sb = small_blind
    /\ game_config.bb = big_blind

\* C27: Call is always affordable. Under the default configuration, at every
\* strategy query the amount to call is at least 0 and at most the acting
\* player's stack, and wager + stack is the same for both players; hence a
\* call or a downgraded raise never refunds an excess to the opponent.
C27_CallAffordable ==
    [][ (IsAct /\ DefaultConfig) =>
            LET p == active_player
                opp == 1 - p
            IN /\ 0 <= ToCall(Chips, p)
               /\ ToCall(Chips, p) <= stacks[p]
               /\ bets[p] + stacks[p] = bets[opp] + stacks[opp]
               /\ last_action' # "fold" =>
                      /\ stacks'[opp] = stacks[opp]
                      /\ bets'[opp] = bets[opp] ]_vars

\* an all-in raise has been called with the whole remaining stack
W_C27 ==
    /\ DefaultConfig
    /\ hands_played > 0
    /\ last_action = "call"
    /\ last_query.to_call > 0
    /\ last_query.to_call = last_query.stack_size
    /\ stacks[0] = 0 /\ stacks[1] = 0

\* C28: Termination. For any strategies that always return fold, call or
\* raise (two that always raise included), every betting round takes finitely
\* many actions, at most one per smallest chip unit of both stacks and two
\* more, and no run stays inside a betting round for ever; every hand
\* reaches hand_complete, by a fold or by the showdown.
C28_Termination ==
    /\ [](Len(actors) <= 2 * game_config.stack + 2)
    /\ []<>(pc # "betting")
    /\ InHand ~> (hand_complete /\ (folded \/ street = 3))

\* both players raised in turn until the stacks were empty, and the hand
\* went on to complete at the showdown
W_C28 ==
    /\ hand_complete /\ ~folded
    /\ pc = "idle"
    /\ street = 3
    /\ last_action = "raise"
    /\ Len(actors) >= 2

\* the cards the running hand has dealt, in dealing order
Dealt == hole_cards[0] \o hole_cards[1] \o board

\* the showdown of the running hand is about to evaluate both hands
AtShowdown == pc = "street_done" /\ ~hand_complete /\ street = 3

\* C29: Dealt cards are distinct. After any number of hands the deck is a
\* permutation of 0..51; in every hand each player holds two cards, the board
\* has at most five, the dealt cards are the first deck_idx cards of the deck
\* and so pairwise distinct ids in 0..51; each hand the showdown evaluates
\* is seven distinct cards.
C29_DealtDistinct ==
    /\ Len(deck) = 52
    /\ {deck[i] : i \in 1..52} = 0..51
    /\ hands_played > 0 =>
          /\ \A p \in Players : Len(hole_cards[p]) = 2
          /\ Len(board) <= 5
          /\ Dealt = Slice(deck, 0, deck_idx)
          /\ Distinct(Dealt)
          /\ \A i \in 1..Len(Dealt) : Dealt[i] \in 0..51
    /\ AtShowdown =>
          \A p \in Players : /\ Len(hole_cards[p] \o board) = 7
                             /\ Distinct(hole_cards[p] \o board)

\* the second hand of an engine, dealt from the deck the first hand left,
\* stands at its showdown with five board cards
W_C29 ==
    /\ AtShowdown
    /\ hands_played = 2
    /\ Len(board) = 5
    /\ deck # FreshDeal(hand_id)

\* ---------------------------------------------------------------------
\* what a strategy is handed at a query
\* ---------------------------------------------------------------------
\* what the code of _run_street can read: the FastState and self.deck
EngineState ==
    [hole_cards |-> hole_cards, board |-> board, deck |-> deck, stacks |-> stacks,
     bets |-> bets, pot |-> pot, street |-> street, btn_idx |-> btn_idx]

\* the perturbation contexts play_hand is called with: BurnState(0, 0, 0) and
\* BurnState(1, 1, 1)
BurnStates ==
    {[range_distortion |-> x, action_entropy |-> x, ev_floor |-> x] : x \in {0, 1}}

\* lines 231-232: the cards as strings
CardStrings(cards) == [k \in 1..Len(cards) |-> int_to_card(cards[k]).value]

\* an InfoSet built from the hole cards of opp_idx
Observation_Peek(e, p, burn_states) ==
    [info  |-> [hole_cards      |-> CardStrings(e.hole_cards[1 - p]),
                community_cards |-> CardStrings(e.board),
                action_history  |-> << >>,
                position        |-> IF p = e.btn_idx THEN "BTN" ELSE "BB"],
     feats |-> [pot_size      |-> e.pot,
                stack_size    |-> e.stacks[p],
                street        |-> IF e.street = 0 THEN "preflop" ELSE "flop",
                to_call       |-> e.bets[1 - p] - e.bets[p],
                valid_actions |-> << "fold", "call", "raise" >>],
     burn_state |-> burn_states[p]]

\* lines 227-251: the three arguments of get_action for the acting player p
Observation(e, p, burn_states) ==
    [info  |-> [hole_cards      |-> CardStrings(e.hole_cards[p]),
                community_cards |-> CardStrings(e.board),
                action_history  |-> << >>,
                position        |-> IF p = e.btn_idx THEN "BTN" ELSE "BB"],
     feats |-> [pot_size      |-> e.pot,
                stack_size    |-> e.stacks[p],
                street        |-> IF e.street = 0 THEN "preflop" ELSE "flop",
                to_call       |-> e.bets[1 - p] - e.bets[p],
                valid_actions |-> << "fold", "call", "raise" >>],
     burn_state |-> burn_states[p]]

\* the deck positions of the hole cards of player q (lines 109-110)
HolePos(q) == {2 * q + 1, 2 * q + 2}

\* the deck position of the last board card (lines 112, 155-164)
LastBoardPos == 4 + DealCount(1) + DealCount(2) + DealCount(3)

\* the deck positions player p has not seen and the running hand can still
\* show: the opponent's hole cards and the cards still to come on the board
HiddenPos(p) == HolePos(1 - p) \cup ((deck_idx + 1)..LastBoardPos)

\* the state e after the cards at the deck positions i and j changed places
Variant(e, p, i, j) ==
    LET d2 == [e.deck EXCEPT ![i] = e.deck[j], ![j] = e.deck[i]]
    IN [e EXCEPT !.deck = d2,
                 !.hole_cards[1 - p] = << d2[2 * (1 - p) + 1], d2[2 * (1 - p) + 2] >>]

\* the hands that differ from the running one only in the opponent's hole
\* cards and in cards not yet on the board: a card the opponent holds or the
\* board is still to get is exchanged for another such card, or for the
\* first card of the deck that the hand never deals
Variants(p) ==
    { Variant(EngineState, p, i, j) :
        i \in HiddenPos(p), j \in HiddenPos(p) \cup {LastBoardPos + 1} }

\* the chips after player p took the action a (lines 279-343)
ChipsAfter(c, p, a) ==
    IF a = "fold" THEN ExecFold(c, p)
    ELSE IF a = "call" THEN ExecCall(c, p)
    ELSE ExecRaise(c, p)

\* C30: Hidden information. At every query the observation and the
\* perturbation context handed to the acting player are the same in every
\* hand that differs from the running one only in the opponent's hole cards
\* and in cards not yet on the board; the observation made is the one of the
\* running state, and the chips after the action follow from the chips
\* before it, the actor and the action alone, so hands with the same actions
\* keep presenting the same observations.
C30_HiddenInformation ==
    /\ []((pc = "betting" /\ ~RoundDone) =>
            \A burn_states \in [Players -> BurnStates] :
                LET o == Observation(EngineState, active_player, burn_states)
                IN /\ \A v \in Variants(active_player) :
                          Observation(v, active_player, burn_states) = o
                   /\ o.burn_state = burn_states[active_player]
                   /\ Features(active_player) = [p_idx      |-> active_player,
                                                 pot_size   |-> o.feats.pot_size,
                                                 stack_size |-> o.feats.stack_size,
                                                 street     |-> o.feats.street,
                                                 to_call    |-> o.feats.to_call])
    /\ [][ IsAct =>
             /\ last_query' = Features(active_player)
             /\ Chips' = ChipsAfter(Chips, active_player, last_action') ]_vars

\* the player out of position is queried on the flop: three board cards are
\* in its observation, two are still to come, and the opponent holds other
\* cards than it does
W_C30 ==
    /\ pc = "betting" /\ ~RoundDone
    /\ street = 1
    /\ Len(actors) = 1
    /\ last_query.street = "flop"
    /\ Len(board) = 3 /\ deck_idx < LastBoardPos
    /\ \E v \in Variants(active_player) :
          /\ v.hole_cards[1 - active_player] # hole_cards[1 - active_player]
          /\ v.hole_cards[active_player] = hole_cards[active_player]
          /\ v.board = board

====
